---- MODULE Spec2Model ----
(***************************************************************************)
(* Storage core of Blastoise: slotted file pages (header, occupancy        *)
(* bitmap, fixed-stride slots), table files, the table file manager and    *)
(* the page pool it drives, a file scan and a filter on top of it.         *)
(*                                                                         *)
(* src/store/file.rs is modelled from its code.  The page pool             *)
(* (store/buffer.rs) and the iterators (exec/query.rs) are not part of the *)
(* sources at hand and are modelled from the specification text.           *)
(***************************************************************************)
EXTENDS Integers, Sequences, FiniteSets, TLC

VARIABLES
    page_size,      \* get_page_size(): the OS page size, fixed for a run
    pool,           \* PagePool: buffer id -> entry (key, pin count)
    mem,            \* the bytes of every pool buffer
    files,          \* TableFileManager.files: fd -> TableFile
    panic,          \* "none", or why the process aborted
    died_in,        \* the operation the process aborted in
    hist,           \* per table: what has been done to it so far
    ops,            \* the number of calls so far that changed the manager
    last_evicted,   \* the pool's most recent eviction victim
    scan,           \* the FileScan that is open, if any
    calc,           \* page-layout computation (get_slot_sum)
    filt,           \* a Filter over a child iterator
    upd,            \* an Update over a Filter over the slots of a page
    hnd,            \* a run of sql_handler on one statement
    bmp,            \* a FilePage's header and BitMap on their own
    tup,            \* a tuple descriptor and a slot written through it
    cat             \* a catalog and its JSON text

vars == <<page_size, pool, mem, files, panic, died_in, hist, ops,
          last_evicted, scan, calc, filt, upd, hnd, bmp, tup, cat>>

(***************************************************************************)
(* Bounds of the model.                                                    *)
(***************************************************************************)
PageSize == 20          \* page size of the storage runs: two slots per page
PoolCap == 2            \* max_memory_pool_page_num
MaxOps == 5             \* calls in one run that change the manager
MaxPageSize == 140      \* page sizes of the layout runs
MaxTupleLen == 12       \* tuple widths of the layout runs
MaxLen == 3             \* length of a filter's child stream
MaxVal == 3             \* tuple values of a filter's child stream
MaxErrs == 2            \* errors one phase of a statement's compilation reports
MaxSlots == 9           \* slots of a page in the bitmap runs
MaxAttrs == 3           \* attributes of a tuple descriptor in the tuple runs
MaxCharLen == 4         \* char(L) lengths in the tuple runs
MaxAttrList == 2        \* attributes of a table in the catalog runs

size_of_u32 == 4
header_size == 2 * size_of_u32

Fds == {1, 2}           \* two table files; the fd names the table
Tested == {1}
Bufs == 1 .. PoolCap
MaxPageIndex == PoolCap - 1     \* largest page index a caller names
NoPanic == "none"

(***************************************************************************)
(* Tuple layout.  Every table of the storage runs has the single column    *)
(* id : Int; a slot holds the i32 it was given.                            *)
(***************************************************************************)
attr_desc == <<[type |-> "Int", len |-> 0]>>

attr_width(a) ==
    IF a.type = "Char" THEN ((a.len + 3) \div 4) * 4 ELSE 4

RECURSIVE attr_offset(_, _)
attr_offset(desc, attr_position) ==
    IF attr_position = 0 \/ desc = <<>> THEN 0
    ELSE LET n == IF attr_position < Len(desc) THEN attr_position ELSE Len(desc)
         IN  attr_offset(desc, n - 1) + attr_width(desc[n])

tuple_len == attr_offset(attr_desc, Len(attr_desc))

(***************************************************************************)
(* get_slot_sum: slots per page for a tuple width.                         *)
(***************************************************************************)
slot_sum_mut(page, len) ==
    (page - header_size) \div len

slot_sum_of(page, len) ==
    (8 * (page - header_size) - 7) \div (8 * len + 1)

get_slot_sum(len) == slot_sum_of(page_size, len)

bitmap_size(slot_sum) == (slot_sum + 7) \div 8

(***************************************************************************)
(* Bytes and bits.                                                         *)
(***************************************************************************)
RECURSIVE Pow2(_)
Pow2(k) == IF k = 0 THEN 1 ELSE 2 * Pow2(k - 1)

BitOf(n, k) == (n \div Pow2(k)) % 2

\* a & b and a | b on u8
AndByte(a, b) ==
    LET F[k \in 0 .. 8] ==
            IF k = 8 THEN 0
            ELSE (IF BitOf(a, k) = 1 /\ BitOf(b, k) = 1 THEN Pow2(k) ELSE 0) + F[k + 1]
    IN  F[0]

OrByte(a, b) ==
    LET F[k \in 0 .. 8] ==
            IF k = 8 THEN 0
            ELSE (IF BitOf(a, k) = 1 \/ BitOf(b, k) = 1 THEN Pow2(k) ELSE 0) + F[k + 1]
    IN  F[0]

(***************************************************************************)
(* BitMap.  bm is the byte sequence at BitMap.data (bm[count + 1] is the   *)
(* byte at offset count); -1 stands for a walk of the mask past bit 7.     *)
(***************************************************************************)
RECURSIVE nti_bits(_, _, _, _)
nti_bits(n, mask, count, bit_count) ==
    IF bit_count > 7 THEN -1
    ELSE IF AndByte(mask, n) > 0 THEN count * 8 + bit_count
    ELSE nti_bits(n, mask * 2, count, bit_count + 1)

RECURSIVE nti_bytes(_, _, _, _)
nti_bytes(bm, slot_sum, count, bit_count) ==
    IF count < (slot_sum + 7) \div 8
    THEN LET n == bm[count + 1]
             mask == Pow2(bit_count)
         IN  IF n < mask THEN nti_bytes(bm, slot_sum, count + 1, 0)
             ELSE nti_bits(n, mask, count, bit_count)
    ELSE slot_sum

\* a next_tuple_index that starts at the first bit of the byte of from
next_tuple_index_mut(bm, slot_sum, from) ==
    IF from >= slot_sum THEN slot_sum
    ELSE nti_bytes(bm, slot_sum, from \div 8, 0)

next_tuple_index(bm, slot_sum, from) ==
    IF from >= slot_sum THEN slot_sum
    ELSE nti_bytes(bm, slot_sum, from \div 8, from % 8)

RECURSIVE gffs_bits(_, _, _, _)
gffs_bits(n, mask, count, bit_count) ==
    IF bit_count > 7 THEN -1
    ELSE IF OrByte(255 - mask, n) < 255 THEN count * 8 + bit_count
    ELSE gffs_bits(n, mask * 2, count, bit_count + 1)

RECURSIVE gffs_bytes(_, _, _)
gffs_bytes(bm, slot_sum, count) ==
    IF count < (slot_sum + 7) \div 8
    THEN LET n == bm[count + 1]
         IN  IF n = 255 THEN gffs_bytes(bm, slot_sum, count + 1)
             ELSE gffs_bits(n, 1, count, 0)
    ELSE slot_sum

get_first_free_slot(bm, slot_sum) == gffs_bytes(bm, slot_sum, 0)

\* the caller has checked index < slot_sum
set_inuse(bm, index, inuse) ==
    LET byte_offset == index \div 8
        n == Pow2(index % 8)
        a == bm[byte_offset + 1]
        b == IF inuse THEN OrByte(a, n) ELSE AndByte(a, 255 - n)
    IN  [bm EXCEPT ![byte_offset + 1] = b]

is_inuse(bm, index) ==
    AndByte(bm[(index \div 8) + 1], Pow2(index % 8)) > 0

(***************************************************************************)
(* The state the operations work on, as one record w:                      *)
(*   pool[b]  = [used, fd, page_index, pin_count]                          *)
(*   mem[b]   = [hdr, bitmap, slots]: the bytes of buffer b, read through  *)
(*              the page layout (header words, bitmap bytes, slot values)  *)
(*   files[fd] = [loaded_pages, page_sum, first_free_page]                 *)
(*   loaded_pages[i] = [mem_page, slot_sum, first_free_slot, tuple_len]    *)
(***************************************************************************)
World == [pool |-> pool, mem |-> mem, files |-> files, panic |-> panic,
          last_evicted |-> last_evicted]

Fail(w, why) == [w EXCEPT !.panic = why]

Put(f, k, v) == [x \in (DOMAIN f) \cup {k} |-> IF x = k THEN v ELSE f[x]]

Remove(f, k) == [x \in (DOMAIN f) \ {k} |-> f[x]]

FreeEntry == [used |-> FALSE, fd |-> 0, page_index |-> 0, pin_count |-> 0]

NoVictim == [fd |-> 0, page_index |-> 0, pin_count |-> 0]

ZeroPage ==
    LET s == get_slot_sum(tuple_len)
    IN  [hdr |-> <<0, 0>>,
         bitmap |-> [i \in 1 .. bitmap_size(s) |-> 0],
         slots |-> [i \in 1 .. s |-> 0]]

\* addresses: buffer b occupies [b * page_size, (b + 1) * page_size)
page_start(b) == b * page_size

(***************************************************************************)
(* FilePage                                                                *)
(***************************************************************************)
FilePage_new(mem_page, len) ==
    [mem_page |-> mem_page, slot_sum |-> get_slot_sum(len),
     first_free_slot |-> 0, tuple_len |-> len]

bitmap_data(page) == page_start(page.mem_page) + header_size

tuple_data(page) == bitmap_data(page) + bitmap_size(page.slot_sum)

is_full(page) == page.first_free_slot = page.slot_sum

is_in_page(page, ptr) ==
    /\ page_start(page.mem_page) <= ptr
    /\ ptr < page_start(page.mem_page) + page_size

\* the literals of a value list: value_type and, for an Integer, the i32
\* its text parses to
ValueTypes == {"Integer", "Float", "String", "Null"}

Value(value_type, n) == [value_type |-> value_type, value |-> n]

\* the match of FilePage::insert on (value type, column type) for an Int
\* column, the column type of the storage runs: the i32 it writes to the
\* slot (the parsed Integer, zero bytes for Null), -1 for the panic of the
\* last arm
written_i32(v, d) ==
    IF d.type # "Int" THEN -1
    ELSE IF v.value_type = "Integer" THEN v.value
    ELSE IF v.value_type = "Null" THEN 0
    ELSE -1

\* FilePage::insert on page page_index of file fd of the value list <<value>>:
\* the slot is marked and the header saved before the value is looked at
FilePage_insert(w, fd, page_index, value) ==
    LET page == w.files[fd].loaded_pages[page_index]
        b == page.mem_page
        bm == w.mem[b].bitmap
        first_free_slot == page.first_free_slot
    IN  IF first_free_slot >= page.slot_sum THEN Fail(w, "assert")
        ELSE IF is_inuse(bm, first_free_slot) THEN Fail(w, "assert")
        ELSE LET bm1 == set_inuse(bm, first_free_slot, TRUE)
                 ffs1 == get_first_free_slot(bm1, page.slot_sum)
                 page1 == [page EXCEPT !.first_free_slot = ffs1]
                 n == written_i32(value, attr_desc[1])
                 buf1 == [hdr |-> <<page.slot_sum, ffs1>>,
                          bitmap |-> bm1,
                          slots |-> IF n = -1 THEN w.mem[b].slots
                                    ELSE [w.mem[b].slots EXCEPT ![first_free_slot + 1] = n]]
                 w1 == [w EXCEPT !.files[fd].loaded_pages[page_index] = page1,
                                 !.mem[b] = buf1]
             IN  IF n = -1 THEN Fail(w1, "invalid_value") ELSE w1

\* FilePage::delete; an offset below the slot region underflows the
\* subtraction (a panic in a checked build, an index >= slot_sum otherwise)
FilePage_delete(w, fd, page_index, ptr) ==
    LET page == w.files[fd].loaded_pages[page_index]
        b == page.mem_page
        d == ptr - tuple_data(page)
        index == d \div page.tuple_len
    IN  IF d < 0 THEN Fail(w, "assert")
        ELSE IF index >= page.slot_sum THEN Fail(w, "assert")
        ELSE IF ~is_inuse(w.mem[b].bitmap, index) THEN Fail(w, "assert")
        ELSE [w EXCEPT !.mem[b].bitmap = set_inuse(@, index, FALSE)]

(***************************************************************************)
(* TableFile                                                               *)
(***************************************************************************)
NewTableFile == [loaded_pages |-> <<>>, page_sum |-> 0, first_free_page |-> 0]

TableFile_delete(w, fd, ptr) ==
    LET hit == {i \in DOMAIN w.files[fd].loaded_pages :
                    is_in_page(w.files[fd].loaded_pages[i], ptr)}
    IN  IF hit = {} THEN w
        ELSE FilePage_delete(w, fd, CHOOSE i \in hit : TRUE, ptr)

TableFile_insert(w, fd, value) ==
    LET f == w.files[fd]
    IN  IF ~(f.first_free_page < f.page_sum) THEN Fail(w, "assert")
        ELSE IF f.first_free_page \notin DOMAIN f.loaded_pages THEN Fail(w, "unwrap_none")
        ELSE IF is_full(f.loaded_pages[f.first_free_page]) THEN Fail(w, "assert")
        ELSE FilePage_insert(w, fd, f.first_free_page, value)

TableFile_insert_in_page(w, fd, page_index, value) ==
    LET f == w.files[fd]
    IN  IF ~(page_index < f.page_sum) THEN Fail(w, "assert")
        ELSE IF page_index \notin DOMAIN f.loaded_pages THEN Fail(w, "unwrap_none")
        ELSE IF is_full(f.loaded_pages[page_index]) THEN Fail(w, "assert")
        ELSE FilePage_insert(w, fd, page_index, value)

\* the while loop of need_new_page: the first_free_page it stops at, and
\* whether it stopped on a page that is not loaded (unwrap of None)
RECURSIVE need_new_page_loop(_, _)
need_new_page_loop(f, ffp) ==
    IF ffp < f.page_sum
    THEN IF ffp \notin DOMAIN f.loaded_pages THEN [ffp |-> ffp, ok |-> FALSE]
         ELSE IF is_full(f.loaded_pages[ffp]) THEN need_new_page_loop(f, ffp + 1)
         ELSE [ffp |-> ffp, ok |-> TRUE]
    ELSE [ffp |-> ffp, ok |-> TRUE]

\* need_new_page: the state it leaves; it answers
\* first_free_page = page_sum on that state
need_new_page(w, fd) ==
    LET r == need_new_page_loop(w.files[fd], w.files[fd].first_free_page)
        w1 == [w EXCEPT !.files[fd].first_free_page = r.ffp]
    IN  IF r.ok THEN w1 ELSE Fail(w1, "unwrap_none")

add_page(w, fd, mem_page) ==
    LET file_page == FilePage_new(mem_page, tuple_len)
        index == w.pool[mem_page].page_index
    IN  [w EXCEPT !.files[fd].loaded_pages = Put(@, index, file_page),
                  !.files[fd].page_sum = @ + 1]

\* a writer callback that keeps the page's handle
TableFile_save_mut(w, fd, page_index) == w

\* impl CacheSaver for TableFile
TableFile_save(w, fd, page_index) ==
    [w EXCEPT !.files[fd].loaded_pages = Remove(@, page_index)]

\* TableFile::next_tuple_index: a slot index, -1 for None; the caller has
\* checked that the page is loaded (the assert of line 354)
TableFile_next_tuple_index(w, fd, page_index, tuple_index) ==
    LET page == w.files[fd].loaded_pages[page_index]
        next == next_tuple_index(w.mem[page.mem_page].bitmap, page.slot_sum, tuple_index)
    IN  IF next = get_slot_sum(tuple_len) THEN -1 ELSE next

(***************************************************************************)
(* PagePool (store/buffer.rs), from the specification: a fixed number of   *)
(* buffers keyed by (fd, page_index), pin counts, eviction of an unpinned  *)
(* entry through its owner's writer callback.  put_page admits a buffer    *)
(* for the key it is given and does not look for the key first: that is    *)
(* left to the callers in file.rs.  A buffer the pool hands out the first  *)
(* time is zeroed; a reclaimed one keeps the victim's bytes or is zeroed   *)
(* (keep).  The callback is reached through the owner's RefCell, so an     *)
(* owner that is mutably borrowed by the caller (borrowed) cannot be       *)
(* called back.                                                            *)
(***************************************************************************)
FreeBufs(w) == {b \in Bufs : ~w.pool[b].used}

Unpinned(w) == {b \in Bufs : w.pool[b].used /\ w.pool[b].pin_count = 0}

Min(S) == CHOOSE x \in S : \A y \in S : x <= y

\* the victims an eviction may pick; 0 when there is none
VictimsAny(w) ==
    LET u == {b \in Bufs : w.pool[b].used} IN IF u = {} THEN {0} ELSE u

Victims(w) ==
    IF Unpinned(w) = {} THEN {0} ELSE Unpinned(w)

Entry(fd, page_index) ==
    [used |-> TRUE, fd |-> fd, page_index |-> page_index, pin_count |-> 0]

PagePool_put_page(w, fd, page_index, borrowed, victim, keep) ==
    IF FreeBufs(w) # {}
    THEN LET b == Min(FreeBufs(w))
         IN  [w EXCEPT !.pool[b] = Entry(fd, page_index), !.mem[b] = ZeroPage]
    ELSE IF victim = 0 THEN w       \* PoolExhausted: nothing is admitted
    ELSE LET v == w.pool[victim]
         IN  IF v.fd = borrowed THEN Fail(w, "already_borrowed")
             ELSE LET w1 == TableFile_save(w, v.fd, v.page_index)
                  IN  [w1 EXCEPT !.pool[victim] = Entry(fd, page_index),
                                 !.mem[victim] = IF keep THEN @ ELSE ZeroPage,
                                 !.last_evicted = [fd |-> v.fd,
                                                   page_index |-> v.page_index,
                                                   pin_count |-> v.pin_count]]

\* the buffer holding the key, 0 for None
PagePool_find(w, fd, page_index) ==
    LET hit == {b \in Bufs : /\ w.pool[b].used
                             /\ w.pool[b].fd = fd
                             /\ w.pool[b].page_index = page_index}
    IN  IF hit = {} THEN 0 ELSE Min(hit)

\* get_page returns the buffer pinned
PagePool_get_page(w, b) ==
    [w EXCEPT !.pool[b].pin_count = @ + 1]

PagePool_pin_page(w, fd, page_index) ==
    LET b == PagePool_find(w, fd, page_index)
    IN  IF b = 0 THEN w ELSE [w EXCEPT !.pool[b].pin_count = @ + 1]

\* an unpin that gives the buffer back to the pool with its last pin
PagePool_unpin_page_mut(w, fd, page_index) ==
    LET b == PagePool_find(w, fd, page_index)
    IN  IF b = 0 THEN w
        ELSE IF w.pool[b].pin_count = 0 THEN Fail(w, "assert")
        ELSE IF w.pool[b].pin_count = 1 THEN [w EXCEPT !.pool[b] = FreeEntry]
        ELSE [w EXCEPT !.pool[b].pin_count = @ - 1]

PagePool_unpin_page(w, fd, page_index) ==
    LET b == PagePool_find(w, fd, page_index)
    IN  IF b = 0 THEN w
        ELSE IF w.pool[b].pin_count = 0 THEN Fail(w, "assert")
        ELSE [w EXCEPT !.pool[b].pin_count = @ - 1]

get_unpinned_num(w) == Cardinality(Unpinned(w))

(***************************************************************************)
(* TableFileManager                                                        *)
(***************************************************************************)
\* put_page, then add_page(get_page(..).unwrap())
admit_page(w, fd, page_index, victim, keep) ==
    LET w1 == PagePool_put_page(w, fd, page_index, fd, victim, keep)
        b == PagePool_find(w1, fd, page_index)
    IN  IF w1.panic # NoPanic THEN w1
        ELSE IF b = 0 THEN Fail(w1, "get_page_none")
        ELSE add_page(PagePool_get_page(w1, b), fd, b)

ensure_page_loaded_mut(w, fd, page_index, victim, keep) ==
    admit_page(w, fd, page_index, victim, keep)

\* an ensure_page_loaded that goes to the pool for a resident page as well
\* and takes one more pin of it
ensure_page_loaded_pin(w, fd, page_index, victim, keep) ==
    IF page_index \notin DOMAIN w.files[fd].loaded_pages
    THEN admit_page(w, fd, page_index, victim, keep)
    ELSE PagePool_pin_page(w, fd, page_index)

ensure_page_loaded(w, fd, page_index, victim, keep) ==
    IF page_index \notin DOMAIN w.files[fd].loaded_pages
    THEN admit_page(w, fd, page_index, victim, keep)
    ELSE w

TableFileManager_insert(w, fd, value, victim, keep) ==
    LET w1 == need_new_page(w, fd)
        f == w1.files[fd]
        w2 == IF f.first_free_page = f.page_sum
              THEN admit_page(w1, fd, f.page_sum, victim, keep)
              ELSE w1
    IN  IF w1.panic # NoPanic THEN w1
        ELSE IF w2.panic # NoPanic THEN w2
        ELSE TableFile_insert(w2, fd, value)

TableFileManager_insert_in_page(w, fd, page_index, value, victim, keep) ==
    LET w1 == ensure_page_loaded(w, fd, page_index, victim, keep)
    IN  IF w1.panic # NoPanic THEN w1
        ELSE TableFile_insert_in_page(w1, fd, page_index, value)

TableFileManager_delete(w, fd, ptr) == TableFile_delete(w, fd, ptr)

\* TableFile::get_tuple_data after ensure_page_loaded: the page is loaded
TableFile_get_tuple_data(w, fd, position) ==
    LET s == get_slot_sum(tuple_len)
        page == w.files[fd].loaded_pages[position \div s]
    IN  IF ~is_inuse(w.mem[page.mem_page].bitmap, position % s)
        THEN Fail(w, "assert") ELSE w

TableFileManager_get_tuple_data(w, fd, position, victim, keep) ==
    LET page_index == position \div get_slot_sum(tuple_len)
        w1 == ensure_page_loaded(w, fd, page_index, victim, keep)
    IN  IF w1.panic # NoPanic THEN w1
        ELSE TableFile_get_tuple_data(w1, fd, position)

\* the attribute pointers get_tuple_data hands out for an occupied position
tuple_pointers(w, fd, position) ==
    LET s == get_slot_sum(tuple_len)
        page == w.files[fd].loaded_pages[position \div s]
        data == tuple_data(page) + (position % s) * tuple_len
    IN  [i \in 1 .. Len(attr_desc) |-> data + attr_offset(attr_desc, i - 1)]

\* get_next_position: a position, -1 for None, -2 for the failed assert of
\* next_tuple_index on a page that is not loaded
RECURSIVE get_next_position_loop(_, _, _, _)
get_next_position_loop(w, fd, page_index, tuple_index) ==
    IF page_index < w.files[fd].page_sum
    THEN IF page_index \notin DOMAIN w.files[fd].loaded_pages THEN -2
         ELSE LET next == TableFile_next_tuple_index(w, fd, page_index, tuple_index)
              IN  IF next # -1 THEN page_index * get_slot_sum(tuple_len) + next
                  ELSE get_next_position_loop(w, fd, page_index + 1, 0)
    ELSE -1

get_next_position(w, fd, from) ==
    LET s == get_slot_sum(tuple_len)
    IN  get_next_position_loop(w, fd, from \div s, from % s)

(***************************************************************************)
(* FileScan (exec/query.rs), from the specification: the cursor is the     *)
(* next logical position; get_next asks the manager for the next occupied  *)
(* position from the cursor and moves the cursor past it.                  *)
(***************************************************************************)
NoScan == [active |-> FALSE, table |-> 0, cursor |-> 0, out |-> <<>>, done |-> FALSE]

slot_value(w, fd, position) ==
    LET s == get_slot_sum(tuple_len)
        page == w.files[fd].loaded_pages[position \div s]
    IN  w.mem[page.mem_page].slots[(position % s) + 1]

(***************************************************************************)
(* The storage runs.  Init is the manager after create_file of both        *)
(* tables.  A panic ends the process: what is left of it is why and where  *)
(* it died, and the history.  The n-th insert into a table writes the      *)
(* value n; hist keeps the number of inserts, whether the table has seen   *)
(* only TableFileManager::insert so far, and the position the call before  *)
(* this one deleted (-1 if it was no delete).  A caller names a page of    *)
(* the file or the one after the last.  One statement runs at a time:      *)
(* while a scan is open nothing else touches the manager.                  *)
(***************************************************************************)
NoCalc == [tuple_len |-> 0, slot_sum |-> 0, done |-> FALSE]

NoFilt == [child |-> <<>>, pred |-> [op |-> "true", k |-> 0], pos |-> 0,
           out |-> <<>>, done |-> FALSE]

NoUpd == [slots |-> <<>>, before |-> <<>>, assign |-> <<>>, filter |-> NoFilt,
          acks |-> <<>>, done |-> FALSE]

NoHnd == [pc |-> "none", lex |-> <<>>, parse |-> <<>>, sem |-> <<>>, tuples |-> <<>>,
          plan_err |-> FALSE, calls |-> <<>>, parsed |-> FALSE, sem_checked |-> FALSE,
          plans |-> 0, opened |-> 0, pulls |-> 0]

NoBmp == [pc |-> "none", slot_sum |-> 0, bitmap |-> <<>>, hdr |-> <<0, 0>>,
          first_free_slot |-> 0, panic |-> FALSE, from |-> -1, next |-> -1]

NoTup == [pc |-> "none", desc |-> <<>>, inuse |-> {}, writes |-> <<>>,
          call |-> "none", tuple_index |-> -1, attr_position |-> -1,
          ret |-> <<>>, panic |-> FALSE]

NoCat == [manager |-> <<>>, text |-> <<>>, encoded |-> <<>>, decoded |-> <<>>,
          given |-> <<>>, reencoded |-> <<>>, style |-> "none", todo |-> {}]

NoOp == [name |-> "none", fd |-> 0]

Init ==
    /\ page_size = PageSize
    /\ pool = [b \in Bufs |-> FreeEntry]
    /\ mem = [b \in Bufs |-> ZeroPage]
    /\ files = [fd \in Fds |-> NewTableFile]
    /\ panic = NoPanic
    /\ died_in = NoOp
    /\ hist = [fd \in Fds |-> [inserts |-> 0, only_inserts |-> TRUE, deleted |-> -1]]
    /\ ops = 0
    /\ last_evicted = NoVictim
    /\ scan = NoScan
    /\ calc = NoCalc
    /\ filt = NoFilt
    /\ upd = NoUpd
    /\ hnd = NoHnd
    /\ bmp = NoBmp
    /\ tup = NoTup
    /\ cat = NoCat

\* the outcome w of operation op on table fd, with the history h and the
\* scan sc it leaves when it returns
Commit(w, op, fd, h, sc) ==
    IF w.panic = NoPanic
    THEN /\ pool' = w.pool
         /\ mem' = w.mem
         /\ files' = w.files
         /\ last_evicted' = w.last_evicted
         /\ hist' = h
         /\ ops' = IF <<w.pool, w.mem, w.files>> = <<pool, mem, files>>
                    THEN ops ELSE ops + 1
         /\ scan' = sc
         /\ UNCHANGED <<panic, died_in, page_size, calc, filt, upd, hnd, bmp, tup, cat>>
    ELSE /\ panic' = w.panic
         /\ died_in' = [name |-> op, fd |-> fd]
         /\ pool' = [b \in Bufs |-> FreeEntry]
         /\ mem' = [b \in Bufs |-> ZeroPage]
         /\ files' = [t \in Fds |-> NewTableFile]
         /\ last_evicted' = NoVictim
         /\ hist' = [t \in Fds |-> [hist[t] EXCEPT !.deleted = -1]]
         /\ ops' = 0
         /\ scan' = NoScan
         /\ UNCHANGED <<page_size, calc, filt, upd, hnd, bmp, tup, cat>>

Idle == panic = NoPanic /\ ~scan.active

CanCall == Idle /\ ops < MaxOps

\* the pointers a caller passes to delete: in every buffer the first header
\* byte, the first bitmap byte, every slot's first and second byte, and the
\* byte after the slot region
PtrOffsets ==
    LET s == get_slot_sum(tuple_len)
        slots == header_size + bitmap_size(s)
    IN  {0, header_size, slots + s * tuple_len}
        \cup {slots + k * tuple_len : k \in 0 .. s - 1}
        \cup {slots + k * tuple_len + 1 : k \in 0 .. s - 1}

Ptrs == {page_start(b) + o : b \in Bufs, o \in PtrOffsets}

Positions == 0 .. ((MaxPageIndex + 1) * get_slot_sum(tuple_len) - 1)

\* the history after a call that is no delete
After(h) == [t \in Fds |-> [h[t] EXCEPT !.deleted = -1]]

\* the position delete(ptr) frees in table t
deleted_position(w, t, ptr) ==
    LET s == get_slot_sum(tuple_len)
        hit == {i \in DOMAIN w.files[t].loaded_pages :
                    is_in_page(w.files[t].loaded_pages[i], ptr)}
        i == CHOOSE i \in hit : TRUE
    IN  IF hit = {} THEN -1
        ELSE i * s + ((ptr - tuple_data(w.files[t].loaded_pages[i])) \div tuple_len)

\* the n-th insert of a table gives the Integer n
Insert(t) ==
    /\ CanCall
    /\ \E victim \in Victims(World), keep \in BOOLEAN :
         LET w == TableFileManager_insert(World, t, Value("Integer", hist[t].inserts + 1),
                                          victim, keep)
         IN  Commit(w, "insert", t, After([hist EXCEPT ![t].inserts = @ + 1]), scan)

\* an insert of a literal of a type that is not the column's
Mismatched == {"Float", "String"}

InsertMismatched(t, value_type) ==
    /\ CanCall
    /\ \E victim \in Victims(World), keep \in BOOLEAN :
         LET w == TableFileManager_insert(World, t, Value(value_type, hist[t].inserts + 1),
                                          victim, keep)
         IN  Commit(w, "insert", t, After([hist EXCEPT ![t].inserts = @ + 1]), scan)

InsertInPage(t, page_index) ==
    /\ CanCall
    /\ page_index <= files[t].page_sum
    /\ \E victim \in Victims(World), keep \in BOOLEAN :
         LET w == TableFileManager_insert_in_page(World, t, page_index,
                                                  Value("Integer", hist[t].inserts + 1),
                                                  victim, keep)
         IN  Commit(w, "insert_in_page", t,
                    After([hist EXCEPT ![t].inserts = @ + 1,
                                       ![t].only_inserts = FALSE]), scan)

Delete(t, ptr) ==
    /\ CanCall
    /\ Commit(TableFileManager_delete(World, t, ptr), "delete", t,
              [After(hist) EXCEPT ![t].only_inserts = FALSE,
                                  ![t].deleted = deleted_position(World, t, ptr)],
              scan)

GetTupleData(t, position) ==
    /\ CanCall
    /\ position \div get_slot_sum(tuple_len) <= files[t].page_sum
    /\ \E victim \in Victims(World), keep \in BOOLEAN :
         LET w == TableFileManager_get_tuple_data(World, t, position, victim, keep)
         IN  Commit(w, "get_tuple_data", t, After(hist), scan)

EnsurePageLoaded(t, page_index) ==
    /\ CanCall
    /\ page_index <= files[t].page_sum
    /\ \E victim \in Victims(World), keep \in BOOLEAN :
         LET w == ensure_page_loaded(World, t, page_index, victim, keep)
         IN  Commit(w, "ensure_page_loaded", t, After(hist), scan)

PinPage(fd, page_index) ==
    /\ CanCall
    /\ Commit(PagePool_pin_page(World, fd, page_index), "pin_page", fd,
              After(hist), scan)

UnpinPage(fd, page_index) ==
    /\ CanCall
    /\ Commit(PagePool_unpin_page(World, fd, page_index), "unpin_page", fd,
              After(hist), scan)

FileScan_open(t) ==
    /\ Idle
    /\ Commit(World, "open", t, After(hist),
              [NoScan EXCEPT !.active = TRUE, !.table = t])

\* get_next: get_next_tuple_data(table, cursor)
FileScan_get_next ==
    /\ panic = NoPanic
    /\ scan.active
    /\ ~scan.done
    /\ LET t == scan.table
           position == get_next_position(World, t, scan.cursor)
       IN  IF position = -2
           THEN Commit(Fail(World, "assert"), "get_next", t, hist, scan)
           ELSE IF position = -1
           THEN Commit(World, "get_next", t, hist, [scan EXCEPT !.done = TRUE])
           ELSE LET w == TableFileManager_get_tuple_data(World, t, position, 0, FALSE)
                IN  Commit(w, "get_next", t, hist,
                           [scan EXCEPT !.cursor = position + 1,
                                        !.out = Append(@, <<position,
                                                  slot_value(World, t, position)>>)])

FileScan_close ==
    /\ panic = NoPanic
    /\ scan.active
    /\ Commit(World, "close", scan.table, hist, NoScan)

\* Table 1 is put through every operation; table 2 is the other user of the
\* pool: pages are inserted into, loaded, pinned and unpinned.
Next ==
    \/ \E t \in Fds : Insert(t)
    \/ \E t \in Tested, value_type \in Mismatched : InsertMismatched(t, value_type)
    \/ \E t \in Tested, i \in 0 .. MaxPageIndex : InsertInPage(t, i)
    \/ \E t \in Tested, ptr \in Ptrs : Delete(t, ptr)
    \/ \E t \in Tested, position \in Positions : GetTupleData(t, position)
    \/ \E t \in Fds, i \in 0 .. MaxPageIndex : EnsurePageLoaded(t, i)
    \/ \E t \in Fds, i \in 0 .. MaxPageIndex : PinPage(t, i)
    \/ \E t \in Fds, i \in 0 .. MaxPageIndex : UnpinPage(t, i)
    \/ \E t \in Tested : FileScan_open(t)
    \/ FileScan_get_next
    \/ FileScan_close

Spec == Init /\ [][Next]_vars

(***************************************************************************)
(* The layout runs: get_slot_sum for a page size and a tuple width.  The   *)
(* page sizes are the small ones and 4096; a page is larger than its       *)
(* header.                                                                 *)
(***************************************************************************)
PageSizes == (header_size + 1 .. MaxPageSize) \cup {4096}

InitLayout ==
    /\ page_size \in PageSizes
    /\ calc \in [tuple_len : 1 .. MaxTupleLen, slot_sum : {0}, done : {FALSE}]
    /\ pool = <<>>
    /\ mem = <<>>
    /\ files = <<>>
    /\ panic = NoPanic
    /\ died_in = NoOp
    /\ hist = <<>>
    /\ ops = 0
    /\ last_evicted = NoVictim
    /\ scan = NoScan
    /\ filt = NoFilt
    /\ upd = NoUpd
    /\ hnd = NoHnd
    /\ bmp = NoBmp
    /\ tup = NoTup
    /\ cat = NoCat

GetSlotSum ==
    /\ ~calc.done
    /\ calc' = [calc EXCEPT !.slot_sum = get_slot_sum(calc.tuple_len), !.done = TRUE]
    /\ UNCHANGED <<page_size, pool, mem, files, panic, died_in, hist, ops,
                   last_evicted, scan, filt, upd, hnd, bmp, tup, cat>>

NextLayout == GetSlotSum

SpecLayout == InitLayout /\ [][NextLayout]_vars

(***************************************************************************)
(* Filter (exec/query.rs), from the specification: get_next pulls from the *)
(* child until the condition holds for a tuple, which it returns, or the   *)
(* child returns None, which it passes on.  The child is a stream of       *)
(* tuples of one Int column; the condition compares the column to a        *)
(* literal or is a comparison of literals that is always true.             *)
(***************************************************************************)
Conds == [op : {"true", "eq", "lt"}, k : 1 .. MaxVal]

eval_cond(cond, tuple) ==
    CASE cond.op = "eq" -> tuple = cond.k
      [] cond.op = "lt" -> tuple < cond.k
      [] OTHER -> TRUE

RECURSIVE SeqsUpTo(_, _)
SeqsUpTo(S, n) ==
    IF n = 0 THEN {<<>>}
    ELSE LET shorter == SeqsUpTo(S, n - 1)
         IN  shorter \cup {Append(q, x) : q \in shorter, x \in S}

\* a filter that gives up at the first tuple its condition rejects
Filter_get_next_mut(f) ==
    IF f.pos = Len(f.child) THEN [f EXCEPT !.done = TRUE]
    ELSE IF eval_cond(f.pred, f.child[f.pos + 1])
    THEN [f EXCEPT !.pos = @ + 1, !.out = Append(@, f.child[f.pos + 1])]
    ELSE [f EXCEPT !.pos = @ + 1, !.done = TRUE]

\* pos is the number of tuples pulled from the child, out what the filter
\* has returned, done whether it has returned None
RECURSIVE Filter_get_next(_)
Filter_get_next(f) ==
    IF f.pos = Len(f.child) THEN [f EXCEPT !.done = TRUE]
    ELSE IF eval_cond(f.pred, f.child[f.pos + 1])
    THEN [f EXCEPT !.pos = @ + 1, !.out = Append(@, f.child[f.pos + 1])]
    ELSE Filter_get_next([f EXCEPT !.pos = @ + 1])

InitFilter ==
    /\ filt \in [child : SeqsUpTo(1 .. MaxVal, MaxLen), pred : Conds, pos : {0},
                  out : {<<>>}, done : {FALSE}]
    /\ page_size = PageSize
    /\ pool = <<>>
    /\ mem = <<>>
    /\ files = <<>>
    /\ panic = NoPanic
    /\ died_in = NoOp
    /\ hist = <<>>
    /\ ops = 0
    /\ last_evicted = NoVictim
    /\ scan = NoScan
    /\ calc = NoCalc
    /\ upd = NoUpd
    /\ hnd = NoHnd
    /\ bmp = NoBmp
    /\ tup = NoTup
    /\ cat = NoCat

GetNext ==
    /\ ~filt.done
    /\ filt' = Filter_get_next(filt)
    /\ UNCHANGED <<page_size, pool, mem, files, panic, died_in, hist, ops,
                   last_evicted, scan, calc, upd, hnd, bmp, tup, cat>>

NextFilter == GetNext

SpecFilter == InitFilter /\ [][NextFilter]_vars

(***************************************************************************)
(* Update (exec/query.rs), from the specification: get_next obtains the    *)
(* next handle from the child, overwrites the named attributes in place    *)
(* and returns the handle; it ends when the child ends.  The child is a    *)
(* Filter over a scan of the slots of a table of three columns (id, score, *)
(* content); the condition reads the id in the slot when it is pulled.     *)
(* The statements are those of test_gen_update_plan: set score, or score   *)
(* and content, with or without where id = k.                              *)
(***************************************************************************)
Attrs == {"id", "score", "content"}

Slot(inuse, id) == [inuse |-> inuse, id |-> id, score |-> 10 + id, content |-> 20 + id]

Slots == {Slot(inuse, id) : inuse \in BOOLEAN, id \in 1 .. MaxVal}

Assigns == {[score |-> 86], [score |-> 86, content |-> 87]}

\* the indices of the slots in use, ascending
occupied(slots) ==
    LET inuse(i) == slots[i].inuse
    IN  SelectSeq([i \in 1 .. Len(slots) |-> i], inuse)

\* what the scan under the filter yields: the ids of the slots in use
scan_ids(slots) ==
    [n \in 1 .. Len(occupied(slots)) |-> slots[occupied(slots)[n]].id]

\* an update that clears the attributes it was not given
apply_assign_mut(slot, assign) ==
    [a \in DOMAIN slot |-> IF a \in DOMAIN assign THEN assign[a]
                           ELSE IF a = "inuse" THEN slot[a] ELSE 0]

apply_assign(slot, assign) ==
    [a \in DOMAIN slot |-> IF a \in DOMAIN assign THEN assign[a] ELSE slot[a]]

\* an update that ends after the first handle it returned
Update_get_next_mut(u) ==
    LET f == Filter_get_next([u.filter EXCEPT !.child = scan_ids(u.slots)])
        handle == occupied(u.slots)[f.pos]
    IN  IF f.done \/ u.acks # <<>> THEN [u EXCEPT !.filter = f, !.done = TRUE]
        ELSE [u EXCEPT !.filter = f,
                       !.slots[handle] = apply_assign(@, u.assign),
                       !.acks = Append(@, handle)]

\* acks are the handles returned (slot indices), done whether None was
Update_get_next(u) ==
    LET f == Filter_get_next([u.filter EXCEPT !.child = scan_ids(u.slots)])
        handle == occupied(u.slots)[f.pos]
    IN  IF f.done THEN [u EXCEPT !.filter = f, !.done = TRUE]
        ELSE [u EXCEPT !.filter = f,
                       !.slots[handle] = apply_assign(@, u.assign),
                       !.acks = Append(@, handle)]

InitUpdate ==
    /\ \E slots \in SeqsUpTo(Slots, MaxLen), pred \in Conds, assign \in Assigns :
          upd = [slots |-> slots, before |-> slots, assign |-> assign,
                 filter |-> [NoFilt EXCEPT !.child = scan_ids(slots), !.pred = pred],
                 acks |-> <<>>, done |-> FALSE]
    /\ page_size = PageSize
    /\ pool = <<>>
    /\ mem = <<>>
    /\ files = <<>>
    /\ panic = NoPanic
    /\ died_in = NoOp
    /\ hist = <<>>
    /\ ops = 0
    /\ last_evicted = NoVictim
    /\ scan = NoScan
    /\ calc = NoCalc
    /\ filt = NoFilt
    /\ hnd = NoHnd
    /\ bmp = NoBmp
    /\ tup = NoTup
    /\ cat = NoCat

UpdateGetNext ==
    /\ ~upd.done
    /\ upd' = Update_get_next(upd)
    /\ UNCHANGED <<page_size, pool, mem, files, panic, died_in, hist, ops,
                   last_evicted, scan, calc, filt, hnd, bmp, tup, cat>>

NextUpdate == UpdateGetNext

SpecUpdate == InitUpdate /\ [][NextUpdate]_vars

(***************************************************************************)
(* sql_handler (server/handler.rs).  A statement is what its compilation   *)
(* and its plan will do: the errors the lexer, the parser and the semantic *)
(* check report (none: the phase passes), the tuples the plan returns      *)
(* before None and whether it then carries an error.  calls are the        *)
(* callbacks made on the result handler, in order.  An error message is    *)
(* the sequence of its lines.                                              *)
(***************************************************************************)
CompileErrors == {[unknown |-> TRUE, column |-> 0], [unknown |-> FALSE, column |-> 1]}

OnError(msg) == [cb |-> "handle_error", msg |-> msg, some |-> FALSE, data |-> 0]

OnTuple(some, data) == [cb |-> "handle_tuple_data", msg |-> <<>>, some |-> some, data |-> data]

handle_sql_err(err_list) ==
    [i \in 1 .. Len(err_list) |->
        IF err_list[i].unknown THEN <<"type", "msg">>
        ELSE <<"type", err_list[i].column, "value", "msg">>]

handle_exec_err == <<<<"type", "msg">>>>

\* a lexer whose errors do not keep the parser from running
gen_parse_result_mut(h) ==
    [h EXCEPT !.parsed = TRUE]

\* gen_parse_result: h.parsed tells whether Statement::parse ran
gen_parse_result(h) ==
    IF Len(h.lex) > 0 THEN h ELSE [h EXCEPT !.parsed = TRUE]

parse_errors(h) == IF h.parsed THEN h.parse ELSE h.lex

\* sql_handler up to plan.open()
sql_handler_begin(h) ==
    LET h1 == gen_parse_result(h)
        h2 == [h1 EXCEPT !.sem_checked = TRUE]
    IN  IF parse_errors(h1) # <<>>
        THEN [h1 EXCEPT !.calls = Append(@, OnError(handle_sql_err(parse_errors(h1)))),
                        !.pc = "done"]
        ELSE IF h2.sem # <<>>
        THEN [h2 EXCEPT !.calls = Append(@, OnError(handle_sql_err(h2.sem))),
                        !.pc = "done"]
        ELSE [h2 EXCEPT !.plans = @ + 1, !.opened = @ + 1, !.pc = "loop"]

\* a loop that reports the end of the stream after the error as well
sql_handler_loop_mut(h) ==
    IF h.pulls < Len(h.tuples)
    THEN [h EXCEPT !.pulls = @ + 1,
                   !.calls = Append(@, OnTuple(TRUE, h.tuples[h.pulls + 1]))]
    ELSE [h EXCEPT !.pulls = @ + 1,
                   !.calls = IF h.plan_err
                             THEN @ \o <<OnError(handle_exec_err), OnTuple(FALSE, 0)>>
                             ELSE Append(@, OnTuple(FALSE, 0)),
                   !.pc = "done"]

\* one turn of the loop of sql_handler
sql_handler_loop(h) ==
    IF h.pulls < Len(h.tuples)
    THEN [h EXCEPT !.pulls = @ + 1,
                   !.calls = Append(@, OnTuple(TRUE, h.tuples[h.pulls + 1]))]
    ELSE [h EXCEPT !.pulls = @ + 1,
                   !.calls = Append(@, IF h.plan_err THEN OnError(handle_exec_err)
                                       ELSE OnTuple(FALSE, 0)),
                   !.pc = "done"]

InitHandler ==
    /\ \E lex \in SeqsUpTo(CompileErrors, MaxErrs), parse \in SeqsUpTo(CompileErrors, MaxErrs),
          sem \in SeqsUpTo(CompileErrors, MaxErrs), tuples \in SeqsUpTo(1 .. 2, MaxLen),
          plan_err \in BOOLEAN :
          hnd = [NoHnd EXCEPT !.pc = "start", !.lex = lex, !.parse = parse, !.sem = sem,
                              !.tuples = tuples, !.plan_err = plan_err]
    /\ page_size = PageSize
    /\ pool = <<>>
    /\ mem = <<>>
    /\ files = <<>>
    /\ panic = NoPanic
    /\ died_in = NoOp
    /\ hist = <<>>
    /\ ops = 0
    /\ last_evicted = NoVictim
    /\ scan = NoScan
    /\ calc = NoCalc
    /\ filt = NoFilt
    /\ upd = NoUpd
    /\ bmp = NoBmp
    /\ tup = NoTup
    /\ cat = NoCat

HandlerBegin ==
    /\ hnd.pc = "start"
    /\ hnd' = sql_handler_begin(hnd)
    /\ UNCHANGED <<page_size, pool, mem, files, panic, died_in, hist, ops,
                   last_evicted, scan, calc, filt, upd, bmp, tup, cat>>

HandlerLoop ==
    /\ hnd.pc = "loop"
    /\ hnd' = sql_handler_loop(hnd)
    /\ UNCHANGED <<page_size, pool, mem, files, panic, died_in, hist, ops,
                   last_evicted, scan, calc, filt, upd, bmp, tup, cat>>

NextHandler == HandlerBegin \/ HandlerLoop

SpecHandler == InitHandler /\ [][NextHandler]_vars

(***************************************************************************)
(* The bitmap runs: the header and the BitMap of one FilePage of slot_sum  *)
(* slots, over a buffer that holds any bytes before init_empty_page.  The  *)
(* page is then put through set_inuse, the slot bookkeeping of insert and  *)
(* of delete, and next_tuple_index, one call at a time: what                *)
(* next_tuple_index returned is kept until its caller has taken it.  A     *)
(* failed assert ends the run.                                             *)
(***************************************************************************)
RawBytes == {0, 129, 255}

BitMap_clean(bm, slot_sum) == [i \in 1 .. bitmap_size(slot_sum) |-> 0]

FilePage_init_empty_page(b) ==
    [b EXCEPT !.hdr = <<b.slot_sum, b.first_free_slot>>,
              !.bitmap = BitMap_clean(b.bitmap, b.slot_sum),
              !.pc = "ready"]

\* a set_inuse that asserts the index against the bits of the bitmap bytes
BitMap_set_inuse_mut(b, index, inuse) ==
    IF ~(index < 8 * bitmap_size(b.slot_sum)) THEN [b EXCEPT !.panic = TRUE]
    ELSE [b EXCEPT !.bitmap = set_inuse(@, index, inuse)]

BitMap_set_inuse(b, index, inuse) ==
    IF ~(index < b.slot_sum) THEN [b EXCEPT !.panic = TRUE]
    ELSE [b EXCEPT !.bitmap = set_inuse(@, index, inuse)]

\* FilePage::insert up to save_to_page: the slot it takes
FilePage_insert_slot(b) ==
    LET first_free_slot == b.first_free_slot
    IN  IF ~(first_free_slot < b.slot_sum) THEN [b EXCEPT !.panic = TRUE]
        ELSE IF is_inuse(b.bitmap, first_free_slot) THEN [b EXCEPT !.panic = TRUE]
        ELSE LET b1 == BitMap_set_inuse(b, first_free_slot, TRUE)
                 ffs1 == get_first_free_slot(b1.bitmap, b.slot_sum)
             IN  [b1 EXCEPT !.first_free_slot = ffs1, !.hdr = <<b.slot_sum, ffs1>>]

\* FilePage::delete from the slot index it has computed
FilePage_delete_slot(b, index) ==
    IF ~(index < b.slot_sum) THEN [b EXCEPT !.panic = TRUE]
    ELSE IF ~is_inuse(b.bitmap, index) THEN [b EXCEPT !.panic = TRUE]
    ELSE BitMap_set_inuse(b, index, FALSE)

InitBitMap ==
    /\ \E slot_sum \in 1 .. MaxSlots :
         \E raw \in [1 .. bitmap_size(slot_sum) -> RawBytes] :
            bmp = [NoBmp EXCEPT !.pc = "new", !.slot_sum = slot_sum, !.bitmap = raw]
    /\ page_size = PageSize
    /\ pool = <<>>
    /\ mem = <<>>
    /\ files = <<>>
    /\ panic = NoPanic
    /\ died_in = NoOp
    /\ hist = <<>>
    /\ ops = 0
    /\ last_evicted = NoVictim
    /\ scan = NoScan
    /\ calc = NoCalc
    /\ filt = NoFilt
    /\ upd = NoUpd
    /\ hnd = NoHnd
    /\ tup = NoTup
    /\ cat = NoCat

BmpFrame ==
    UNCHANGED <<page_size, pool, mem, files, panic, died_in, hist, ops,
                last_evicted, scan, calc, filt, upd, hnd, tup, cat>>

BmpReady == bmp.pc = "ready" /\ ~bmp.panic /\ bmp.from = -1

InitEmptyPage ==
    /\ bmp.pc = "new"
    /\ bmp' = FilePage_init_empty_page(bmp)
    /\ BmpFrame

SetInuse(index, inuse) ==
    /\ BmpReady
    /\ bmp' = BitMap_set_inuse(bmp, index, inuse)
    /\ BmpFrame

PageInsert ==
    /\ BmpReady
    /\ bmp' = FilePage_insert_slot(bmp)
    /\ BmpFrame

PageDelete(index) ==
    /\ BmpReady
    /\ bmp' = FilePage_delete_slot(bmp, index)
    /\ BmpFrame

NextTupleIndex(from) ==
    /\ BmpReady
    /\ bmp' = [bmp EXCEPT !.from = from,
                          !.next = next_tuple_index(bmp.bitmap, bmp.slot_sum, from)]
    /\ BmpFrame

\* the caller takes the index next_tuple_index returned
NextTupleIndexReturn ==
    /\ bmp.from # -1
    /\ bmp' = [bmp EXCEPT !.from = -1, !.next = -1]
    /\ BmpFrame

NextBitMap ==
    \/ InitEmptyPage
    \/ \E index \in 0 .. MaxSlots, inuse \in BOOLEAN : SetInuse(index, inuse)
    \/ PageInsert
    \/ \E index \in 0 .. MaxSlots : PageDelete(index)
    \/ \E from \in 0 .. MaxSlots + 1 : NextTupleIndex(from)
    \/ NextTupleIndexReturn

SpecBitMap == InitBitMap /\ [][NextBitMap]_vars

(***************************************************************************)
(* The tuple runs: one FilePage of TupSlots slots of a table with the      *)
(* tuple descriptor desc.  Offsets are counted from FilePage.tuple_data.   *)
(* writes[k + 1] are the offsets FilePage::insert wrote the attributes of  *)
(* slot k at; ret is what the last reader call returned: the pointers of   *)
(* get_tuple_data (<<-1>> for None), the one pointer get_tuple_value read  *)
(* at.  A failed assert ends the run.                                      *)
(***************************************************************************)
TupSlots == 2

AttrTypes ==
    {[type |-> "Int", len |-> 0], [type |-> "Float", len |-> 0]}
        \cup {[type |-> "Char", len |-> l] : l \in 1 .. MaxCharLen}

\* TupleDesc.tuple_len
desc_tuple_len(desc) == attr_offset(desc, Len(desc))

\* an insert that moves on by the length of a char(L) as it is
write_advance_mut(a) ==
    IF a.type = "Char" THEN a.len ELSE 4

\* how far FilePage::insert moves p on after the value of attribute a
write_advance(a) ==
    IF a.type = "Char" THEN ((a.len + 3) \div 4) * 4 ELSE 4

\* the loop of FilePage::insert over the values: where each is written
RECURSIVE insert_writes(_, _, _)
insert_writes(desc, k, p) ==
    IF k > Len(desc) THEN <<>>
    ELSE <<p>> \o insert_writes(desc, k + 1, p + write_advance(desc[k]))

\* the loop of get_tuple_data: i runs over 1 .. len
RECURSIVE get_tuple_data_loop(_, _, _, _)
get_tuple_data_loop(desc, data, i, p) ==
    IF i > Len(desc) THEN <<>>
    ELSE <<p>> \o get_tuple_data_loop(desc, data, i + 1, data + attr_offset(desc, i))

FilePage_tuple_insert(u) ==
    LET free == (0 .. TupSlots - 1) \ u.inuse
        first_free_slot == IF free = {} THEN TupSlots ELSE Min(free)
        p == desc_tuple_len(u.desc) * first_free_slot
    IN  IF ~(first_free_slot < TupSlots) THEN [u EXCEPT !.panic = TRUE]
        ELSE [u EXCEPT !.inuse = @ \cup {first_free_slot},
                       !.writes[first_free_slot + 1] = insert_writes(u.desc, 1, p)]

FilePage_get_tuple_data(u, tuple_index) ==
    LET data == tuple_index * desc_tuple_len(u.desc)
    IN  IF tuple_index >= TupSlots THEN [u EXCEPT !.ret = <<-1>>]
        ELSE IF tuple_index \notin u.inuse THEN [u EXCEPT !.panic = TRUE]
        ELSE [u EXCEPT !.ret = get_tuple_data_loop(u.desc, data, 1, data)]

FilePage_get_tuple_value(u, tuple_index, attr_position) ==
    LET p == tuple_index * desc_tuple_len(u.desc)
    IN  IF ~(tuple_index < TupSlots) THEN [u EXCEPT !.panic = TRUE]
        ELSE IF tuple_index \notin u.inuse THEN [u EXCEPT !.panic = TRUE]
        ELSE [u EXCEPT !.ret = <<p + attr_offset(u.desc, attr_position)>>]

InitTuple ==
    /\ \E n \in 1 .. MaxAttrs : \E desc \in [1 .. n -> AttrTypes] :
            tup = [NoTup EXCEPT !.pc = "ready", !.desc = desc,
                                !.writes = [k \in 1 .. TupSlots |-> <<>>]]
    /\ page_size = PageSize
    /\ pool = <<>>
    /\ mem = <<>>
    /\ files = <<>>
    /\ panic = NoPanic
    /\ died_in = NoOp
    /\ hist = <<>>
    /\ ops = 0
    /\ last_evicted = NoVictim
    /\ scan = NoScan
    /\ calc = NoCalc
    /\ filt = NoFilt
    /\ upd = NoUpd
    /\ hnd = NoHnd
    /\ bmp = NoBmp
    /\ cat = NoCat

TupFrame ==
    UNCHANGED <<page_size, pool, mem, files, panic, died_in, hist, ops,
                last_evicted, scan, calc, filt, upd, hnd, bmp, cat>>

\* the call a step makes, with the result of the call before it dropped
Called(u, call, tuple_index, attr_position) ==
    [u EXCEPT !.call = call, !.tuple_index = tuple_index,
              !.attr_position = attr_position, !.ret = <<>>]

TupleInsert ==
    /\ tup.pc = "ready" /\ ~tup.panic
    /\ tup' = FilePage_tuple_insert(Called(tup, "insert", -1, -1))
    /\ TupFrame

GetTupleDataOfSlot(tuple_index) ==
    /\ tup.pc = "ready" /\ ~tup.panic
    /\ tup' = FilePage_get_tuple_data(Called(tup, "get_tuple_data", tuple_index, -1),
                                      tuple_index)
    /\ TupFrame

GetTupleValue(tuple_index, attr_position) ==
    /\ tup.pc = "ready" /\ ~tup.panic
    /\ attr_position < Len(tup.desc)
    /\ tup' = FilePage_get_tuple_value(
                  Called(tup, "get_tuple_value", tuple_index, attr_position),
                  tuple_index, attr_position)
    /\ TupFrame

NextTuple ==
    \/ TupleInsert
    \/ \E tuple_index \in 0 .. TupSlots : GetTupleDataOfSlot(tuple_index)
    \/ \E tuple_index \in 0 .. TupSlots, attr_position \in 0 .. MaxAttrs - 1 :
            GetTupleValue(tuple_index, attr_position)

SpecTuple == InitTuple /\ [][NextTuple]_vars

(***************************************************************************)
(* The catalog runs (store/table.rs), from the specification and from the  *)
(* texts test_table.rs expects.  A JSON text is its objects and arrays as  *)
(* the sequences of their members in the order of the text, a number in a  *)
(* string as its decimal digits, and whether blanks stand between the      *)
(* tokens.  to_json writes the tables by ascending name and the members    *)
(* of an attribute type as len, type; from_json finds members by key.  A   *)
(* run has a catalog and a valid JSON text of it that someone wrote, in    *)
(* the order of to_json or not, and encodes and decodes both.              *)
(***************************************************************************)
TableNames == <<"author", "book">>

CatAttrTypes ==
    {[type |-> "Int", len |-> 0], [type |-> "Float", len |-> 0],
     [type |-> "Char", len |-> 10], [type |-> "Char", len |-> 233]}

CatAttrs ==
    {[name |-> n, attr_type |-> a, primary |-> (n = "id"), nullable |-> (a.type = "Float")] :
        n \in {"id", "name"}, a \in CatAttrTypes}

\* the table book of test_json_translate
Book ==
    [name |-> "book",
     attr_list |-> <<[name |-> "id", attr_type |-> [type |-> "Int", len |-> 0],
                      primary |-> TRUE, nullable |-> FALSE],
                     [name |-> "author_id", attr_type |-> [type |-> "Int", len |-> 0],
                      primary |-> TRUE, nullable |-> TRUE]>>]

\* the decimal digits of n, and the number of decimal digits
RECURSIVE to_string(_)
to_string(n) == IF n < 10 THEN <<n>> ELSE Append(to_string(n \div 10), n % 10)

\* a parse that stops after the first digit
parse_usize_mut(ds) == ds[1]

RECURSIVE parse_usize(_)
parse_usize(ds) ==
    IF Len(ds) = 1 THEN ds[1]
    ELSE 10 * parse_usize(SubSeq(ds, 1, Len(ds) - 1)) + ds[Len(ds)]

\* the value of the member of object obj with the key
Member(obj, key) == obj[CHOOSE i \in 1 .. Len(obj) : obj[i][1] = key][2]

encode_attr_type(a) ==
    IF a.type = "Char" THEN << <<"len", to_string(a.len)>>, <<"type", "Char">> >>
    ELSE << <<"type", a.type>> >>

decode_attr_type(obj) ==
    IF Member(obj, "type") = "Char"
    THEN [type |-> "Char", len |-> parse_usize(Member(obj, "len"))]
    ELSE [type |-> Member(obj, "type"), len |-> 0]

encode_attr(a) ==
    << <<"name", a.name>>, <<"attr_type", encode_attr_type(a.attr_type)>>,
       <<"primary", a.primary>>, <<"nullable", a.nullable>> >>

decode_attr(obj) ==
    [name |-> Member(obj, "name"), attr_type |-> decode_attr_type(Member(obj, "attr_type")),
     primary |-> Member(obj, "primary"), nullable |-> Member(obj, "nullable")]

encode_table(t) ==
    << <<"name", t.name>>,
       <<"attr_list", [i \in 1 .. Len(t.attr_list) |-> encode_attr(t.attr_list[i])]>> >>

decode_table(obj) ==
    LET l == Member(obj, "attr_list")
    IN  [name |-> Member(obj, "name"),
         attr_list |-> [i \in 1 .. Len(l) |-> decode_attr(l[i])]]

\* the names of the sequence names that the manager has, in its order
RECURSIVE present(_, _)
present(names, manager) ==
    IF names = <<>> THEN <<>>
    ELSE (IF names[1] \in DOMAIN manager THEN <<names[1]>> ELSE <<>>)
            \o present(Tail(names), manager)

\* TableManager::to_json: no blanks
to_json(manager) ==
    LET names == present(TableNames, manager)
    IN  [json |-> [i \in 1 .. Len(names) |-> <<names[i], encode_table(manager[names[i]])>>],
         blanks |-> FALSE]

\* TableManager::from_json
from_json(text) ==
    [name \in {text.json[i][1] : i \in 1 .. Len(text.json)} |->
        decode_table(Member(text.json, name))]

\* test::utils::remove_blanks
remove_blanks(text) == [text EXCEPT !.blanks = FALSE]

Reverse(q) == [i \in 1 .. Len(q) |-> q[Len(q) + 1 - i]]

\* a valid JSON text of the catalog as somebody writes it: as to_json
\* does, with the members of every attribute type as type, len (the order
\* of the format description), or with the tables in descending order
Styles == {"to_json", "type_first", "descending"}

written_attr(a, style) ==
    << <<"name", a.name>>,
       <<"attr_type", IF style = "type_first" THEN Reverse(encode_attr_type(a.attr_type))
                      ELSE encode_attr_type(a.attr_type)>>,
       <<"primary", a.primary>>, <<"nullable", a.nullable>> >>

written_table(t, style) ==
    << <<"name", t.name>>,
       <<"attr_list", [i \in 1 .. Len(t.attr_list) |-> written_attr(t.attr_list[i], style)]>> >>

written(manager, style, blanks) ==
    LET names == present(IF style = "descending" THEN Reverse(TableNames) ELSE TableNames,
                         manager)
    IN  [json |-> [i \in 1 .. Len(names) |-> <<names[i], written_table(manager[names[i]], style)>>],
         blanks |-> blanks]

InitCatalog ==
    /\ \E n \in 1 .. MaxAttrList : \E attr_list \in [1 .. n -> CatAttrs] :
        \E with_book \in BOOLEAN, style \in Styles, blanks \in BOOLEAN :
            LET author == [name |-> "author", attr_list |-> attr_list]
                manager == IF with_book
                           THEN [name \in {"author", "book"} |->
                                    IF name = "book" THEN Book ELSE author]
                           ELSE [name \in {"author"} |-> author]
            IN  cat = [NoCat EXCEPT !.manager = manager, !.style = style,
                                    !.text = written(manager, style, blanks),
                                    !.todo = {"to_json", "from_json"}]
    /\ page_size = PageSize
    /\ pool = <<>>
    /\ mem = <<>>
    /\ files = <<>>
    /\ panic = NoPanic
    /\ died_in = NoOp
    /\ hist = <<>>
    /\ ops = 0
    /\ last_evicted = NoVictim
    /\ scan = NoScan
    /\ calc = NoCalc
    /\ filt = NoFilt
    /\ upd = NoUpd
    /\ hnd = NoHnd
    /\ bmp = NoBmp
    /\ tup = NoTup

CatFrame ==
    UNCHANGED <<page_size, pool, mem, files, panic, died_in, hist, ops,
                last_evicted, scan, calc, filt, upd, hnd, bmp, tup>>

\* manager.to_json()
ToJson ==
    /\ "to_json" \in cat.todo
    /\ cat' = [cat EXCEPT !.encoded = to_json(cat.manager),
                          !.todo = (@ \ {"to_json"}) \cup {"from_json of it"}]
    /\ CatFrame

\* TableManager::from_json(the text to_json gave)
FromJsonOfEncoded ==
    /\ "from_json of it" \in cat.todo
    /\ cat' = [cat EXCEPT !.decoded = from_json(cat.encoded),
                          !.todo = @ \ {"from_json of it"}]
    /\ CatFrame

\* TableManager::from_json(JSON_DATA)
FromJson ==
    /\ "from_json" \in cat.todo
    /\ cat' = [cat EXCEPT !.given = from_json(cat.text),
                          !.todo = (@ \ {"from_json"}) \cup {"to_json of it"}]
    /\ CatFrame

\* gen_manager.to_json()
ToJsonOfGiven ==
    /\ "to_json of it" \in cat.todo
    /\ cat' = [cat EXCEPT !.reencoded = to_json(cat.given),
                          !.todo = @ \ {"to_json of it"}]
    /\ CatFrame

NextCatalog == ToJson \/ FromJsonOfEncoded \/ FromJson \/ ToJsonOfGiven

SpecCatalog == InitCatalog /\ [][NextCatalog]_vars

(***************************************************************************)
(* What the claims speak of.                                               *)
(***************************************************************************)
\* the smallest slot index whose bit is 0, or slot_sum
LowestFree(bm, slot_sum) ==
    LET free == {k \in 0 .. slot_sum - 1 : ~is_inuse(bm, k)}
    IN  IF free = {} THEN slot_sum ELSE Min(free)

\* the occupied logical positions of the loaded pages of table t
Occupied(fs, m, t) ==
    UNION {{i * fs[t].loaded_pages[i].slot_sum + k :
                k \in {k \in 0 .. fs[t].loaded_pages[i].slot_sum - 1 :
                          is_inuse(m[fs[t].loaded_pages[i].mem_page].bitmap, k)}} :
            i \in DOMAIN fs[t].loaded_pages}

\* the sequence of the elements of a set of numbers, ascending
RECURSIVE Ascending(_)
Ascending(S) ==
    IF S = {} THEN <<>> ELSE <<Min(S)>> \o Ascending(S \ {Min(S)})

\* N slots of width T, their bitmap and the header fit in a page of size P
Fits(N, T, P) == ((N + 7) \div 8) + T * N <= P - 8

\* C1: every pin count of the pool is >= 0, and every entry the pool has
\* evicted had pin count 0 when it was reclaimed.
C1_PinCountsAndVictims ==
    /\ \A b \in Bufs : pool[b].pin_count >= 0
    /\ last_evicted.pin_count = 0

\* an eviction has happened while another entry of the pool is pinned
C1_Witness ==
    /\ last_evicted.fd # 0
    /\ \E b \in Bufs : pool[b].used /\ pool[b].pin_count > 0

\* C2: the pool holds at most one buffer per (fd, page_index).
C2_OneBufferPerKey ==
    \A a \in Bufs, b \in Bufs :
        ( /\ pool[a].used /\ pool[b].used
          /\ pool[a].fd = pool[b].fd
          /\ pool[a].page_index = pool[b].page_index ) => a = b

\* the pool is full of pages of both tables after an eviction
C2_Witness ==
    /\ last_evicted.fd # 0
    /\ \A b \in Bufs : pool[b].used
    /\ \E a \in Bufs, b \in Bufs : pool[a].fd # pool[b].fd

\* C3: on every page, first_free_slot is the smallest slot index whose
\* bitmap bit is 0, or slot_sum if every slot bit is 1.
C3_FirstFreeSlotIsLowestFree ==
    \A t \in Fds : \A i \in DOMAIN files[t].loaded_pages :
        LET page == files[t].loaded_pages[i]
        IN  page.first_free_slot = LowestFree(mem[page.mem_page].bitmap, page.slot_sum)

\* C4: an insert that follows a delete of an occupied slot of a page at once
\* and goes to that page puts the tuple in the lowest free slot of the page
\* (the deleted slot, when that is lower than every other free slot).
C4_InsertAfterDeleteTakesLowestFree ==
    [][\A t \in Tested :
        LET s == get_slot_sum(tuple_len)
            i == hist[t].deleted \div s
            page == files[t].loaded_pages[i]
            new == Occupied(files', mem', t) \ Occupied(files, mem, t)
        IN  ( /\ hist[t].deleted # -1
              /\ hist'[t].inserts = hist[t].inserts + 1
              /\ panic' = NoPanic
              /\ \E p \in new : p \div s = i )
            => new = {i * s + LowestFree(mem[page.mem_page].bitmap, s)}]_vars

\* C5: first_free_page of a table file whose pages are all loaded is the
\* smallest page index whose page has a free slot, or page_sum.
C5_FirstFreePageIsLowestNotFull ==
    \A t \in Fds :
        LET f == files[t]
            notfull == {i \in DOMAIN f.loaded_pages :
                          LowestFree(mem[f.loaded_pages[i].mem_page].bitmap,
                                     f.loaded_pages[i].slot_sum)
                              < f.loaded_pages[i].slot_sum}
        IN  DOMAIN f.loaded_pages = 0 .. f.page_sum - 1
            => f.first_free_page = IF notfull = {} THEN f.page_sum ELSE Min(notfull)

\* the positions and the values a scan has returned
scan_positions == [n \in 1 .. Len(scan.out) |-> scan.out[n][1]]

scan_values == [n \in 1 .. Len(scan.out) |-> scan.out[n][2]]

OccupiedFrom(t, from) == {p \in Occupied(files, mem, t) : p >= from}

AllLoaded(t) == DOMAIN files[t].loaded_pages = 0 .. files[t].page_sum - 1

\* C6: get_next_position(from) does not fail and is the smallest occupied
\* position >= from, or None; a scan from position 0 returns the occupied
\* positions of the table in ascending order, each once, then None, and
\* does not fail.
C6_ScanReturnsOccupiedAscending ==
    /\ died_in.name # "get_next"
    /\ panic = NoPanic =>
         \A t \in Tested :
            /\ \A from \in 0 .. files[t].page_sum * get_slot_sum(tuple_len) :
                  /\ get_next_position(World, t, from) # -2
                  /\ AllLoaded(t) =>
                        get_next_position(World, t, from) =
                            IF OccupiedFrom(t, from) = {} THEN -1
                            ELSE Min(OccupiedFrom(t, from))
            /\ (scan.active /\ scan.table = t /\ AllLoaded(t)) =>
                  /\ scan_positions =
                        Ascending({p \in Occupied(files, mem, t) : p < scan.cursor})
                  /\ scan.done => scan_positions = Ascending(Occupied(files, mem, t))

\* C7: after n TableFileManager::insert calls on a table, with no delete
\* and no insert_in_page, no insert of a value of the column's type has
\* failed and a file scan of the table does not fail and yields the n
\* tuples in insertion order.
C7_InsertsThenScanInInsertionOrder ==
    \A t \in Tested :
        hist[t].only_inserts =>
            /\ panic # "invalid_value" =>
                  died_in \notin {[name |-> "insert", fd |-> t],
                                  [name |-> "get_next", fd |-> t]}
            /\ (scan.active /\ scan.table = t /\ scan.done) =>
                  scan_values = [n \in 1 .. hist[t].inserts |-> n]

\* C8: the slots get_slot_sum computes, their bitmap and the header fit in
\* the page: ceil(slot_sum / 8) + T * slot_sum <= P - 8.
C8_SlotSumFits ==
    calc.done => Fits(calc.slot_sum, calc.tuple_len, page_size)

\* a layout whose bitmap takes more than one byte
C8_Witness ==
    calc.done /\ calc.slot_sum > 8 /\ calc.tuple_len > 1

\* C9: for a tuple width that is a multiple of 4, slot_sum is the largest N
\* with ceil(N / 8) + T * N <= P - 8: slot_sum + 1 does not fit.
C9_SlotSumIsLargest ==
    (calc.done /\ calc.tuple_len % 4 = 0) =>
        ~Fits(calc.slot_sum + 1, calc.tuple_len, page_size)

\* C10: a filter has returned the tuples among those pulled from its child
\* for which the condition is true, in the child's order, each once; it
\* pulls no further than the tuple it returns; it returns None exactly when
\* the child is exhausted, having returned every tuple the condition is true
\* for (every tuple, when the condition is always true).
C10_FilterEmitsMatchesInOrder ==
    LET cond(x) == eval_cond(filt.pred, x)
    IN  /\ filt.out = SelectSeq(SubSeq(filt.child, 1, filt.pos), cond)
        /\ (~filt.done /\ filt.pos > 0) => cond(filt.child[filt.pos])
        /\ filt.done => /\ filt.pos = Len(filt.child)
                        /\ filt.out = SelectSeq(filt.child, cond)
        /\ (filt.done /\ filt.pred.op = "true") => filt.out = filt.child

\* a filter has run to None, having returned some tuples of its child and
\* skipped others
C10_Witness ==
    /\ filt.done
    /\ Len(filt.out) > 0
    /\ Len(filt.out) < Len(filt.child)

\* whether the update's condition holds for slot i as it was before
upd_matches(i) ==
    upd.before[i].inuse /\ eval_cond(upd.filter.pred, upd.before[i].id)

\* C11: an Update driven to exhaustion has overwritten the attributes named
\* in its assignments in exactly the rows its condition (id = k) holds for;
\* every other slot, and every attribute it does not name, the id among
\* them, is as it was before, and so is the occupancy of every slot.  A
\* slot whose handle has not been returned yet is as it was before.
C11_UpdateWritesOnlyMatchingRows ==
    \A i \in 1 .. Len(upd.slots) :
        /\ upd.slots[i].inuse = upd.before[i].inuse
        /\ (\A n \in 1 .. Len(upd.acks) : upd.acks[n] # i) => upd.slots[i] = upd.before[i]
        /\ upd.done =>
              \A a \in Attrs :
                  upd.slots[i][a] =
                      IF upd_matches(i) /\ a \in DOMAIN upd.assign
                      THEN upd.assign[a] ELSE upd.before[i][a]

\* an update where id = k has run to None over a table with a matching row,
\* an occupied row that does not match and a free slot
C11_Witness ==
    /\ upd.done
    /\ upd.filter.pred.op = "eq"
    /\ \E i \in 1 .. Len(upd.slots) : upd_matches(i)
    /\ \E i \in 1 .. Len(upd.slots) : upd.before[i].inuse /\ ~upd_matches(i)
    /\ \E i \in 1 .. Len(upd.slots) : ~upd.before[i].inuse

\* C12: an Update returns one handle per tuple its child produces, in the
\* child's order: the matching rows, which are all occupied rows when there
\* is no WHERE clause; it returns None when the child has ended, and then
\* every such row has been acknowledged once.
C12_UpdateOneHandlePerChildTuple ==
    LET all == occupied(upd.before)
        matching == SelectSeq(all, upd_matches)
    IN  /\ Len(upd.acks) <= Len(matching)
        /\ upd.acks = SubSeq(matching, 1, Len(upd.acks))
        /\ Len(upd.acks) = Len(upd.filter.out)
        /\ upd.done <=> upd.filter.done
        /\ upd.done => upd.acks = matching
        /\ (upd.done /\ upd.filter.pred.op = "true") => upd.acks = all

\* an update has returned two handles or more and then None
C12_Witness ==
    upd.done /\ Len(upd.acks) >= 2

\* the statement passes lexing, parsing and the semantic check
hnd_passes == hnd.lex = <<>> /\ hnd.parse = <<>> /\ hnd.sem = <<>>

\* the tuples delivered so far, as callbacks
hnd_delivered(n) == [i \in 1 .. n |-> OnTuple(TRUE, hnd.tuples[i])]

\* C13: for a statement that passes, sql_handler opens the plan once, hands
\* each tuple of get_next to handle_tuple_data(Some) in order, and after the
\* first None makes one last callback, handle_error if the plan carries an
\* error and handle_tuple_data(None) otherwise, and no call after it.
C13_HandlerDeliversThenTerminates ==
    (hnd_passes /\ hnd.pc # "start") =>
        /\ hnd.plans = 1 /\ hnd.opened = 1
        /\ hnd.pc = "loop" =>
              /\ hnd.pulls <= Len(hnd.tuples)
              /\ hnd.calls = hnd_delivered(hnd.pulls)
        /\ hnd.pc = "done" =>
              /\ hnd.pulls = Len(hnd.tuples) + 1
              /\ hnd.calls = Append(hnd_delivered(Len(hnd.tuples)),
                                    IF hnd.plan_err THEN OnError(handle_exec_err)
                                    ELSE OnTuple(FALSE, 0))

\* the handler has delivered two tuples or more and then the plan's error
C13_Witness ==
    /\ hnd_passes
    /\ hnd.pc = "done"
    /\ hnd.plan_err
    /\ Len(hnd.tuples) >= 2

\* C14: for a statement with lex, parse or semantic errors, sql_handler
\* calls handle_error once, with all errors of the first failing phase in
\* one message, never handle_tuple_data, and makes and runs no plan; after
\* lex errors the parser does not run, after parse errors the semantic
\* check does not run.
C14_HandlerReportsCompileErrorsOnce ==
    (~hnd_passes /\ hnd.pc # "start") =>
        /\ hnd.pc = "done"
        /\ hnd.plans = 0 /\ hnd.opened = 0 /\ hnd.pulls = 0
        /\ hnd.calls = <<OnError(handle_sql_err(
                            IF hnd.lex # <<>> THEN hnd.lex
                            ELSE IF hnd.parse # <<>> THEN hnd.parse ELSE hnd.sem))>>
        /\ Len(hnd.calls[1].msg) =
              Len(IF hnd.lex # <<>> THEN hnd.lex
                  ELSE IF hnd.parse # <<>> THEN hnd.parse ELSE hnd.sem)
        /\ hnd.lex # <<>> => ~hnd.parsed
        /\ (hnd.lex # <<>> \/ hnd.parse # <<>>) => ~hnd.sem_checked

\* the handler has reported two lex errors of a statement that would also
\* fail to parse
C14_Witness ==
    /\ hnd.pc = "done"
    /\ Len(hnd.lex) = 2
    /\ hnd.parse # <<>>
    /\ Len(hnd.calls) = 1

\* C15: an admission into a pool that is full of pinned entries fails
\* with an error value: the caller does not abort on the page that was not
\* admitted.
C15_PoolExhaustedIsReported ==
    panic # "get_page_none"

\* the buffers whose entry is evicted by this step
Evicted ==
    {b \in Bufs : /\ pool[b].used
                  /\ pool'[b].used
                  /\ <<pool'[b].fd, pool'[b].page_index>>
                        # <<pool[b].fd, pool[b].page_index>>}

\* C16: an eviction goes through the writer callback of the victim's
\* table file: when the victim's buffer holds the new page, the victim's
\* index is absent from its file's loaded_pages, the file's page_sum and
\* first_free_page are what they were, and the pool has recorded the victim.
C16_EvictionSavesTheVictim ==
    [][panic' = NoPanic =>
          \A b \in Evicted :
              LET v == pool[b]
              IN  /\ v.page_index \in DOMAIN files[v.fd].loaded_pages
                  /\ v.page_index \notin DOMAIN files'[v.fd].loaded_pages
                  /\ files'[v.fd].page_sum = files[v.fd].page_sum
                  /\ files'[v.fd].first_free_page = files[v.fd].first_free_page
                  /\ last_evicted' = [fd |-> v.fd, page_index |-> v.page_index,
                                      pin_count |-> v.pin_count]]_vars

\* a page of a table has been evicted: the buffer holds another page, the
\* file still counts the page and has no handle of it
C16_Witness ==
    /\ panic = NoPanic
    /\ last_evicted.fd \in Fds
    /\ last_evicted.page_index < files[last_evicted.fd].page_sum
    /\ last_evicted.page_index \notin DOMAIN files[last_evicted.fd].loaded_pages
    /\ PagePool_find(World, last_evicted.fd, last_evicted.page_index) = 0

\* C17: every operation keyed by table loads the page it touches first: a
\* scan or an insert that reaches a page of the file that was evicted
\* re-admits the page, it does not fail on the missing loaded page (the
\* assert of next_tuple_index in get_next, the unwrap of need_new_page and
\* of TableFile's insert).
C17_OperationsLoadThePageTheyTouch ==
    /\ panic # "unwrap_none"
    /\ ~(panic = "assert" /\ died_in.name = "get_next")

\* C18: ensure_page_loaded of a page that is in the file's loaded_pages
\* changes nothing: loaded_pages, page_sum, first_free_page, the bytes of
\* the pages and the pool (its entries, their pin counts, the last victim)
\* are what they were, whatever the pool could evict.
C18_EnsureLoadedOfResidentPageIsNoOp ==
    panic = NoPanic =>
        \A t \in Fds : \A i \in DOMAIN files[t].loaded_pages :
            \A victim \in Victims(World), keep \in BOOLEAN :
                ensure_page_loaded(World, t, i, victim, keep) = World

\* a resident page of table 1 that holds a tuple, in a full pool in which
\* an admission would evict an unpinned page of table 2
C18_Witness ==
    /\ Idle
    /\ FreeBufs(World) = {}
    /\ \E b \in Unpinned(World) : pool[b].fd = 2
    /\ \E i \in DOMAIN files[1].loaded_pages :
          /\ files[1].loaded_pages[i].first_free_slot > 0
          /\ PagePool_find(World, 1, i) # 0

\* C19: FilePage::insert of a value whose type is not the column's (a
\* String or a Float literal for the Int column) fails with a TypeMismatch
\* error: it does not abort on the value.
C19_TypeMismatchIsAnError ==
    panic # "invalid_value"

\* the pointers of Ptrs into page i of table t that FilePage::delete may
\* clear a bit for: the first byte of an occupied slot
SlotStarts(t, i) ==
    LET page == files[t].loaded_pages[i]
    IN  {ptr \in Ptrs :
            LET d == ptr - tuple_data(page)
            IN  /\ d >= 0
                /\ d % page.tuple_len = 0
                /\ d \div page.tuple_len < page.slot_sum
                /\ is_inuse(mem[page.mem_page].bitmap, d \div page.tuple_len)}

\* C20: FilePage::delete(ptr) on a page that contains ptr clears a bit
\* only for a pointer to the first byte of an occupied slot; for any
\* other pointer into the page (its header, its bitmap, the middle of a
\* slot, a free slot, past the slots) it fails on an assertion and leaves
\* the bitmap as it is.
C20_DeleteOnlyAtStartOfOccupiedSlot ==
    panic = NoPanic =>
        \A t \in Tested : \A i \in DOMAIN files[t].loaded_pages :
            \A ptr \in Ptrs :
                is_in_page(files[t].loaded_pages[i], ptr) =>
                    LET w == FilePage_delete(World, t, i, ptr)
                    IN  IF ptr \in SlotStarts(t, i)
                        THEN w.panic = NoPanic /\ w.mem # mem
                        ELSE w.panic = "assert" /\ w.mem = mem

\* the slot indices of the set bits of the bitmap bytes bm
SetBits(bm) == {i \in 0 .. 8 * Len(bm) - 1 : BitOf(bm[(i \div 8) + 1], i % 8) = 1}

\* the smallest occupied slot index >= from, slot_sum if there is none
NextOccupied(bm, slot_sum, from) ==
    LET S == {i \in SetBits(bm) : i >= from /\ i < slot_sum}
    IN  IF S = {} THEN slot_sum ELSE Min(S)

\* C21: on a bitmap reached by set_inuse calls from a cleaned bitmap,
\* next_tuple_index(from) terminates and returns the smallest slot index
\* >= from whose bit is set, or slot_sum if there is none; it is never
\* above slot_sum and is slot_sum on a page that has just been initialized.
C21_NextTupleIndexIsNextOccupied ==
    bmp.from # -1 =>
        /\ bmp.next = NextOccupied(bmp.bitmap, bmp.slot_sum, bmp.from)
        /\ bmp.next \in 0 .. bmp.slot_sum
        /\ SetBits(bmp.bitmap) = {} => bmp.next = bmp.slot_sum

\* a search that starts behind a set bit of the first byte and finds its
\* slot in the second byte
C21_Witness ==
    /\ bmp.slot_sum > 8
    /\ 3 \in SetBits(bmp.bitmap)
    /\ bmp.from = 4
    /\ bmp.next = 8

\* C25: once the page is initialized, every bit of the last bitmap byte at
\* an index >= slot_sum is 0, whatever insert, set_inuse and delete do.
C25_BitsBeyondSlotSumAreZero ==
    bmp.pc = "ready" => \A i \in SetBits(bmp.bitmap) : i < bmp.slot_sum

\* a page whose last byte has unused bits, initialized over bytes that were
\* not zero, with its last slot occupied and a lower slot freed again
C25_Witness ==
    /\ bmp.pc = "ready"
    /\ bmp.slot_sum % 8 # 0
    /\ bmp.slot_sum - 1 \in SetBits(bmp.bitmap)
    /\ 0 \notin SetBits(bmp.bitmap)
    /\ bmp.first_free_slot > 0

\* C22: add_page of a buffer the pool has just handed out, whatever bytes
\* the buffer held, gives an empty page: first_free_slot is 0 in the
\* FilePage and in the header bytes, every bitmap bit is 0 (next_tuple_index
\* from 0 is slot_sum), the page is in loaded_pages under the buffer's page
\* index and page_sum is one more than it was.
C22_AddPageGivesEmptyPage ==
    panic = NoPanic =>
        \A t \in Fds : \A victim \in Victims(World), keep \in BOOLEAN :
            LET i == files[t].page_sum
                w == admit_page(World, t, i, victim, keep)
                page == w.files[t].loaded_pages[i]
                buf == w.mem[page.mem_page]
            IN  w.panic = NoPanic =>
                    /\ i \in DOMAIN w.files[t].loaded_pages
                    /\ w.pool[page.mem_page].fd = t
                    /\ w.pool[page.mem_page].page_index = i
                    /\ w.files[t].page_sum = files[t].page_sum + 1
                    /\ page.first_free_slot = 0
                    /\ buf.hdr[2] = 0
                    /\ SetBits(buf.bitmap) = {}
                    /\ next_tuple_index(buf.bitmap, page.slot_sum, 0) = page.slot_sum

\* C27: page_sum counts the pages of the file, loaded or not:
\* ensure_page_loaded of a page index below page_sum that is not loaded
\* (it was evicted) re-admits the page and leaves page_sum as it is, and
\* every loaded page index is below page_sum.
C27_ReloadKeepsPageSum ==
    panic = NoPanic =>
        \A t \in Fds :
            /\ \A i \in DOMAIN files[t].loaded_pages : i < files[t].page_sum
            /\ \A i \in 0 .. files[t].page_sum - 1 :
                  \A victim \in Victims(World), keep \in BOOLEAN :
                      LET w == ensure_page_loaded(World, t, i, victim, keep)
                      IN  (i \notin DOMAIN files[t].loaded_pages /\ w.panic = NoPanic)
                              => w.files[t].page_sum = files[t].page_sum

\* C28: a page index is in a file's loaded_pages exactly when the pool
\* holds a buffer for (the file's fd, the index), and the FilePage under
\* the index wraps that buffer.
C28_LoadedPagesArePoolBuffers ==
    panic = NoPanic =>
        \A t \in Fds :
            /\ \A i \in DOMAIN files[t].loaded_pages :
                  files[t].loaded_pages[i].mem_page = PagePool_find(World, t, i)
            /\ \A b \in Bufs :
                  (pool[b].used /\ pool[b].fd = t) =>
                      /\ pool[b].page_index \in DOMAIN files[t].loaded_pages
                      /\ files[t].loaded_pages[pool[b].page_index].mem_page = b

\* after an eviction: a page of table 1 is out of loaded_pages and out of
\* the pool, and both tables have pages loaded
C28_Witness ==
    /\ panic = NoPanic
    /\ last_evicted.fd = 1
    /\ PagePool_find(World, 1, last_evicted.page_index) = 0
    /\ files[1].loaded_pages # <<>>
    /\ files[2].loaded_pages # <<>>
    /\ \E b \in Bufs : pool[b].pin_count = 0

\* C29: an insert or an ensure_page_loaded that admits a page into a full
\* pool whose unpinned victim is a page of the same table file succeeds:
\* the writer callback, called on the file the caller has mutably
\* borrowed, runs to completion.
C29_EvictionOfOwnPageSucceeds ==
    panic # "already_borrowed"

\* C30: a FilePage::insert that fails on the value leaves the page as it
\* was: no slot newly marked, first_free_slot and the header bytes
\* unchanged.
C30_FailedInsertLeavesPageUnchanged ==
    panic = NoPanic =>
        \A t \in Tested : \A i \in DOMAIN files[t].loaded_pages :
            \A value_type \in Mismatched :
                LET page == files[t].loaded_pages[i]
                    w == FilePage_insert(World, t, i, Value(value_type, 1))
                IN  w.panic = "invalid_value" =>
                        /\ w.mem[page.mem_page].bitmap = mem[page.mem_page].bitmap
                        /\ w.mem[page.mem_page].hdr = mem[page.mem_page].hdr
                        /\ w.files[t].loaded_pages[i].first_free_slot = page.first_free_slot
                        /\ Occupied(w.files, w.mem, t) = Occupied(files, mem, t)

\* the positions a scan of table t from position from yields on w, by
\* get_next_position from one past the last; <<-2>> where it fails
RECURSIVE scan_from(_, _, _)
scan_from(w, t, from) ==
    LET position == get_next_position(w, t, from)
    IN  IF position = -2 THEN <<-2>>
        ELSE IF position = -1 THEN <<>>
        ELSE <<position>> \o scan_from(w, t, position + 1)

\* TableFile::delete(ptr) for a pointer to the first byte of an occupied
\* slot of page i of table t: one loaded page contains ptr, and only the
\* bit of the slot changes
DeleteFrame(t, i, ptr) ==
    LET page == files[t].loaded_pages[i]
        b == page.mem_page
        index == (ptr - tuple_data(page)) \div page.tuple_len
        w == TableFile_delete(World, t, ptr)
    IN  /\ w.panic = NoPanic
        /\ {j \in DOMAIN files[t].loaded_pages :
                is_in_page(files[t].loaded_pages[j], ptr)} = {i}
        /\ SetBits(w.mem[b].bitmap) = SetBits(mem[b].bitmap) \ {index}
        /\ w.mem[b].slots = mem[b].slots
        /\ w.mem[b].hdr = mem[b].hdr
        /\ \A c \in Bufs \ {b} : w.mem[c] = mem[c]
        /\ w.files = files
        /\ w.pool = pool

\* C26: TableFile::delete(ptr) for a pointer to the start of an occupied
\* tuple goes to the one loaded page whose buffer contains ptr and clears
\* only that slot's bit: the other bits, the tuple bytes and the other
\* pages are unchanged, and a scan of the table afterwards yields the
\* positions that were occupied except the deleted one.
C26_DeleteClearsOneBit ==
    panic = NoPanic =>
        \A t \in Tested : \A i \in DOMAIN files[t].loaded_pages :
            \A ptr \in SlotStarts(t, i) :
                is_in_page(files[t].loaded_pages[i], ptr) =>
                    LET page == files[t].loaded_pages[i]
                        index == (ptr - tuple_data(page)) \div page.tuple_len
                        pos == i * page.slot_sum + index
                    IN  /\ DeleteFrame(t, i, ptr)
                        /\ scan_from(TableFile_delete(World, t, ptr), t, 0)
                              = Ascending(Occupied(files, mem, t) \ {pos})

\* the width of an attribute: 4 for a numeric, ((L + 3) / 4) * 4 for char(L)
Width(a) == IF a.type = "Char" THEN ((a.len + 3) \div 4) * 4 ELSE 4

\* offset(i): the sum of the widths of the attributes before the i-th
RECURSIVE PrefixSum(_, _)
PrefixSum(desc, i) == IF i <= 1 THEN 0 ELSE PrefixSum(desc, i - 1) + Width(desc[i - 1])

\* writer and readers agree on every attribute of every occupied slot, and
\* get_tuple_data is None at and beyond slot_sum
TupleOffsetsAgree ==
    /\ \A k \in tup.inuse : \A i \in 1 .. Len(tup.desc) :
          /\ Len(tup.writes[k + 1]) = Len(tup.desc)
          /\ tup.writes[k + 1][i] = k * desc_tuple_len(tup.desc) + PrefixSum(tup.desc, i)
          /\ tup.writes[k + 1][i] = k * desc_tuple_len(tup.desc) + attr_offset(tup.desc, i - 1)
    /\ (tup.call = "get_tuple_value" /\ ~tup.panic) =>
          tup.ret = <<tup.writes[tup.tuple_index + 1][tup.attr_position + 1]>>
    /\ (tup.call = "get_tuple_data" /\ tup.tuple_index >= TupSlots) =>
          ~tup.panic /\ tup.ret = <<-1>>
    /\ (tup.call = "get_tuple_data" /\ tup.tuple_index \in tup.inuse) =>
          ~tup.panic /\ tup.ret = tup.writes[tup.tuple_index + 1]

\* C23 as stated: insert writes attribute i of a slot at the offset the
\* readers get_tuple_value and get_tuple_data use, the sum of the widths
\* of the attributes before it; get_tuple_data returns None for
\* slot_index >= slot_sum and otherwise one pointer per attribute.
C23_Stated ==
    /\ TupleOffsetsAgree
    /\ (tup.call = "get_tuple_data" /\ tup.tuple_index < TupSlots) =>
          ~tup.panic /\ Len(tup.ret) = Len(tup.desc)

\* C23, amended: the same, with one pointer per attribute for a slot_index
\* below slot_sum that is occupied; for one that is not occupied
\* get_tuple_data fails its assertion.
C23_WriterAndReadersAgree ==
    /\ TupleOffsetsAgree
    /\ (tup.call = "get_tuple_data" /\ tup.tuple_index < TupSlots) =>
          IF tup.tuple_index \in tup.inuse
          THEN ~tup.panic /\ Len(tup.ret) = Len(tup.desc)
          ELSE tup.panic

\* the handle of the second slot of a table whose char column is padded
\* and followed by another column
C23_Witness ==
    /\ tup.call = "get_tuple_data"
    /\ tup.tuple_index = 1
    /\ Len(tup.ret) = 3
    /\ tup.desc[2].type = "Char" /\ tup.desc[2].len % 4 # 0
    /\ tup.ret[3] > tup.ret[2] + tup.desc[2].len

\* a Char attribute of the catalog
HasChar(manager) ==
    \E name \in DOMAIN manager : \E i \in 1 .. Len(manager[name].attr_list) :
        manager[name].attr_list[i].attr_type.type = "Char"

\* from_json(to_json(t)) = t, with the length of a Char encoded as a string
DecodeOfEncode ==
    /\ cat.encoded # <<>> =>
          \A i \in 1 .. Len(cat.encoded.json) :
              LET l == Member(cat.encoded.json[i][2], "attr_list")
              IN  \A k \in 1 .. Len(l) :
                      LET a == Member(l[k], "attr_type")
                      IN  Member(a, "type") = "Char" =>
                              Member(a, "len") = to_string(
                                  cat.manager[cat.encoded.json[i][1]].attr_list[k].attr_type.len)
    /\ cat.decoded # <<>> => cat.decoded = cat.manager

====
